---- MODULE Spec2Model ----
(***************************************************************************)
(* Model of package problem (src/problem.go): the Problem value, its       *)
(* functional options, JSON (de)serialization and HTTP emission.           *)
(*                                                                         *)
(* One *Problem reference is followed through a chain of calls.  Go maps   *)
(* are reference values, so the maps live in a small heap: address 1 is    *)
(* the map owned by the instance, address 2 the map last returned by       *)
(* Data(), address 0 is the nil map.                                       *)
(***************************************************************************)
EXTENDS Integers, Sequences, FiniteSets, TLC

\* Bounds of the model.
MaxOps == 3      \* calls (and applied options) per behaviour
MaxArgs == 2     \* options passed to one variadic call

\* Program constants.
MediaType == "application/problem+json"
StatusInternalServerError == 500

-----------------------------------------------------------------------------
(* Go values of dynamic type `any`: the dynamic type and the payload.      *)

StrVal(x) == [t |-> "string", s |-> x, n |-> 0]
IntVal(i) == [t |-> "int", s |-> "", n |-> i]
Float64Val(i) == [t |-> "float64", s |-> "", n |-> i]   \* an integral float64
NilVal == [t |-> "nil", s |-> "", n |-> 0]
FuncVal == [t |-> "func", s |-> "", n |-> 0]          \* not JSON-compatible

\* error values: the nil error, a plain error, and one that wraps it.
NoErr == "nil"
Errs == {"e1", "e2"}
ErrUnwrap(e) == IF e = "e2" THEN "e1" ELSE NoErr
ErrorText(e) == IF e = "e1" THEN "boom" ELSE "ctx: boom"

\* errors.Is(err, target) for comparable errors without Is methods.
RECURSIVE ErrorsIs(_, _)
ErrorsIs(err, target) ==
    IF err = NoErr \/ target = NoErr THEN err = target
    ELSE IF err = target THEN TRUE
    ELSE IF ErrUnwrap(err) = NoErr THEN FALSE
    ELSE ErrorsIs(ErrUnwrap(err), target)

\* http.StatusText
StatusText(code) ==
    IF code = 201 THEN "Created"
    ELSE IF code = 404 THEN "Not Found"
    ELSE ""

-----------------------------------------------------------------------------
(* Maps and the heap.                                                      *)

NilMap == 0
EmptyMap == [k \in {} |-> NilVal]
MapSet(m, k, v) == [x \in (DOMAIN m) \cup {k} |-> IF x = k THEN v ELSE m[x]]
MapDelete(m, k) == [x \in (DOMAIN m) \ {k} |-> m[x]]

\* The memory an operation works on: the reference p ("nil" or "ptr"), the
\* struct fields data (a map address) and cause, the heap, and whether the
\* call panicked.
Mem(ref, d, h, c) == [p |-> ref, data |-> d, heap |-> h, cause |-> c, fault |-> FALSE]

\* p.data[k] = v
Store(st, k, v) == [st EXCEPT !.heap[st.data] = MapSet(@, k, v)]

\* A make() on every call, dropping the map already there.
ensureMapFresh(st) == [st EXCEPT !.data = 1, !.heap[1] = EmptyMap]

ensureMap(st) ==
    IF st.data = NilMap
    THEN [st EXCEPT !.data = 1, !.heap[1] = EmptyMap]
    ELSE st

-----------------------------------------------------------------------------
(* Options.  An Option is a closure over its arguments; the record keeps   *)
(* the constructor and the captured arguments, apply runs the body.        *)

NilOption == [kind |-> "nil", key |-> "", val |-> NilVal, err |-> NoErr]
Wrap(err) == [kind |-> "Wrap", key |-> "", val |-> NilVal, err |-> err]
WrapPublic(err) == [kind |-> "WrapPublic", key |-> "cause", val |-> NilVal, err |-> err]
Type(uri) == [kind |-> "set", key |-> "type", val |-> StrVal(uri), err |-> NoErr]
Title(title) == [kind |-> "set", key |-> "title", val |-> StrVal(title), err |-> NoErr]
Status(status) == [kind |-> "set", key |-> "status", val |-> IntVal(status), err |-> NoErr]
Detail(detail) == [kind |-> "set", key |-> "detail", val |-> StrVal(detail), err |-> NoErr]
Instance(uri) == [kind |-> "set", key |-> "instance", val |-> StrVal(uri), err |-> NoErr]
Ext(key, value) == [kind |-> "set", key |-> key, val |-> value, err |-> NoErr]
Custom(key, value) == Ext(key, value)

\* Wrap that also withdraws the public cause text.
applyWrapClears(opt, st) ==
    [st EXCEPT !.cause = opt.err,
               !.heap = IF st.data = NilMap THEN @
                        ELSE [@ EXCEPT ![st.data] = MapDelete(@, "cause")]]

\* The body of Wrap's closure.
applyWrap(opt, st) == [st EXCEPT !.cause = opt.err]

\* The body of WrapPublic's closure: err.Error() on a nil error panics
\* after the cause is stored and the map ensured, before the key is set.
applyWrapPublic(opt, st) ==
    LET s1 == ensureMap([st EXCEPT !.cause = opt.err])
    IN  IF opt.err = NoErr
        THEN [s1 EXCEPT !.fault = TRUE]
        ELSE Store(s1, "cause", StrVal(ErrorText(opt.err)))

\* The body shared by Type, Title, Status, Detail, Instance and Ext.
applySet(opt, st) == Store(ensureMap(st), opt.key, opt.val)

apply(opt, st) ==
    CASE opt.kind = "Wrap" -> applyWrap(opt, st)
      [] opt.kind = "WrapPublic" -> applyWrapPublic(opt, st)
      [] OTHER -> applySet(opt, st)

\* The options applied from the last to the first.
RECURSIVE applyAllReversed(_, _)
applyAllReversed(st, opts) ==
    IF opts = <<>> \/ st.fault THEN st
    ELSE LET o == opts[Len(opts)]
         IN  applyAllReversed(IF o.kind = "nil" THEN st ELSE apply(o, st),
                              SubSeq(opts, 1, Len(opts) - 1))

\* for _, opt := range opts { if opt != nil { opt.apply(p) } }
RECURSIVE applyAll(_, _)
applyAll(st, opts) ==
    IF opts = <<>> \/ st.fault THEN st
    ELSE applyAll(IF Head(opts).kind = "nil" THEN st ELSE apply(Head(opts), st),
                  Tail(opts))

\* New allocates the instance and its map; h is the heap it allocates in.
New(h, opts) == applyAll(Mem("ptr", 1, [h EXCEPT ![1] = EmptyMap], NoErr), opts)

Of(h, status) == New(h, <<Status(status), Title(StatusText(status))>>)

ProblemAppend(st, opts) ==
    IF st.p = "nil" THEN New(st.heap, opts)
    ELSE applyAll(ensureMap(st), opts)

With(st, key, value) == ProblemAppend(st, <<Ext(key, value)>>)

-----------------------------------------------------------------------------
(* Read access.                                                            *)

\* Data handing out the instance's own map.
DataAlias(st) ==
    IF st.p = "nil" \/ st.data = NilMap
    THEN [out |-> 2, heap |-> [st.heap EXCEPT ![2] = EmptyMap]]
    ELSE [out |-> st.data, heap |-> st.heap]

\* Data returns the address of the returned map and the heap holding it.
Data(st) ==
    IF st.p = "nil" \/ st.data = NilMap
    THEN [out |-> 2, heap |-> [st.heap EXCEPT ![2] = EmptyMap]]
    ELSE [out |-> 2, heap |-> [st.heap EXCEPT ![2] = st.heap[st.data]]]

\* v, ok := m[key] on a possibly nil map m
MapIndex(st, key) ==
    IF st.data # NilMap /\ key \in DOMAIN st.heap[st.data]
    THEN <<st.heap[st.data][key], TRUE>>
    ELSE <<NilVal, FALSE>>

Get(st, key) ==
    IF st.p = "nil" \/ st.data = NilMap THEN <<NilVal, FALSE>>
    ELSE MapIndex(st, key)

Unwrap(st) == IF st.p = "nil" THEN NoErr ELSE st.cause

Is(st, target) ==
    IF st.p = "nil" THEN target = NoErr ELSE ErrorsIs(st.cause, target)

-----------------------------------------------------------------------------
(* JSON.  A byte sequence is kept as what it parses to: the literal null,  *)
(* an object with its members, another JSON value (an array), text that is *)
(* not JSON, or no bytes at all.                                           *)

JStr(x) == [j |-> "string", s |-> x, n |-> 0]
JNum(i) == [j |-> "number", s |-> "", n |-> i]
JNull == [j |-> "null", s |-> "", n |-> 0]

Bytes(kind, members) == [kind |-> kind, members |-> members]
NullBytes == Bytes("null", EmptyMap)
NoBytes == Bytes("empty", EmptyMap)
ObjectBytes(members) == Bytes("object", members)

\* encoding/json on one value: an int and an integral float64 both print as
\* the same number text; a func value is an UnsupportedTypeError.
Encodable(v) == v.t # "func"
Encode(v) ==
    CASE v.t = "string" -> JStr(v.s)
      [] v.t = "int" -> JNum(v.n)
      [] v.t = "float64" -> JNum(v.n)
      [] OTHER -> JNull

\* encoding/json decoding one value into an `any`: every number is a float64.
Decode(j) ==
    CASE j.j = "string" -> StrVal(j.s)
      [] j.j = "number" -> Float64Val(j.n)
      [] OTHER -> NilVal

\* json.Marshal(p.data)
MarshalMap(m) ==
    IF \A k \in DOMAIN m : Encodable(m[k])
    THEN [b |-> ObjectBytes([k \in DOMAIN m |-> Encode(m[k])]), err |-> NoErr]
    ELSE [b |-> NoBytes, err |-> "UnsupportedTypeError"]

MarshalJSON(st) ==
    IF st.p = "nil" THEN [b |-> NullBytes, err |-> NoErr]
    ELSE IF st.data = NilMap THEN [b |-> ObjectBytes(EmptyMap), err |-> NoErr]
    ELSE MarshalMap(st.heap[st.data])

\* b, _ := json.Marshal(p)
JSON(st) == MarshalJSON(st).b
JSONString(st) == JSON(st)
Error(st) == JSONString(st)

\* json.Unmarshal(b, &p.data): text that is not JSON is rejected before
\* anything is stored; an object is decoded into the existing map; null sets
\* the map to nil and is no error; any other value is an UnmarshalTypeError.
UnmarshalMap(st, b) ==
    CASE b.kind = "object" ->
           [st |-> [st EXCEPT !.heap[st.data] =
                       [k \in (DOMAIN @) \cup (DOMAIN b.members) |->
                           IF k \in DOMAIN b.members THEN Decode(b.members[k])
                           ELSE @[k]]],
            err |-> NoErr]
      [] b.kind = "null" -> [st |-> [st EXCEPT !.data = NilMap], err |-> NoErr]
      [] b.kind = "array" -> [st |-> st, err |-> "UnmarshalTypeError"]
      [] OTHER -> [st |-> st, err |-> "SyntaxError"]

\* for k := range p.data { delete(p.data, k) }
clear(st) == [st EXCEPT !.heap[st.data] = EmptyMap]

UnmarshalJSON(st, b) ==
    IF st.p = "nil" THEN [st |-> st, err |-> "nil *Problem"]
    ELSE UnmarshalMap(clear(ensureMap(st)), b)

-----------------------------------------------------------------------------
(* HTTP emission.  The sink records the calls made on it, in order.        *)

NoResult == [n |-> 0, err |-> NoErr]
SetHeader(v) ==
    [call |-> "Header.Set", arg |-> v, code |-> 0, body |-> NoBytes, res |-> NoResult]
WriteHeader(c) ==
    [call |-> "WriteHeader", arg |-> "", code |-> c, body |-> NoBytes, res |-> NoResult]
\* res is what the sink returned from this Write.
Write(b, res) ==
    [call |-> "Write", arg |-> "", code |-> 0, body |-> b, res |-> res]

asStatusCode(v) == IF v.t = "int" THEN <<v.n, TRUE>> ELSE <<0, FALSE>>

WriteHeaderTo(st) ==
    LET hdr == <<SetHeader(MediaType)>>
    IN  IF st.p = "nil" \/ st.data = NilMap THEN hdr
        ELSE IF MapIndex(st, "status")[2] /\ asStatusCode(MapIndex(st, "status")[1])[2]
        THEN hdr \o <<WriteHeader(asStatusCode(MapIndex(st, "status")[1])[1])>>
        ELSE hdr

\* write without the rule for a zero fallback.
writeNoDefault(st, fallback, res) ==
    LET s == MapIndex(st, "status")
        code == IF st.p # "nil" /\ s[2] /\ s[1].t = "int" THEN s[1].n ELSE fallback
    IN  [calls |-> <<SetHeader(MediaType), WriteHeader(code), Write(JSON(st), res)>>,
         ret |-> res]

\* res is what the sink's Write returns.
write(st, fallback, res) ==
    LET code0 == IF fallback = 0 THEN StatusInternalServerError ELSE fallback
        s == MapIndex(st, "status")
        code == IF st.p # "nil" /\ s[2] /\ s[1].t = "int" THEN s[1].n ELSE code0
    IN  [calls |-> <<SetHeader(MediaType), WriteHeader(code), Write(JSON(st), res)>>,
         ret |-> res]

WriteTo(st, res) == write(st, StatusInternalServerError, res)

-----------------------------------------------------------------------------
(* Inputs.                                                                 *)

Strs == {"a"}
Codes == {201, 404}
ExtArgs == {<<"x", StrVal("b")>>, <<"x", FuncVal>>, <<"title", StrVal("b")>>,
            <<"status", StrVal("b")>>, <<"cause", StrVal("b")>>}
Causes == Errs \cup {NoErr}

Options ==
    {NilOption}
    \cup {Type(x) : x \in Strs} \cup {Title(x) : x \in Strs}
    \cup {Detail(x) : x \in Strs} \cup {Instance(x) : x \in Strs}
    \cup {Status(c) : c \in Codes}
    \cup {Ext(a[1], a[2]) : a \in ExtArgs}
    \cup {Wrap(e) : e \in Causes} \cup {WrapPublic(e) : e \in Causes}

OptSeqs(n) == UNION {[1..i -> Options] : i \in 0..n}

DocKeys == {"status"}
JVals == {JNum(404), JStr("a")}
Docs ==
    {NullBytes, NoBytes, Bytes("array", EmptyMap), Bytes("malformed", EmptyMap)}
    \cup {ObjectBytes(m) : m \in UNION {[D -> JVals] : D \in SUBSET DocKeys}}

Fallbacks == {0, 400}
SinkResults == {[n |-> 9, err |-> NoErr], [n |-> 4, err |-> "EIO"]}

OutKeys == {"status", "x"}
OutVals == {StrVal("z")}

-----------------------------------------------------------------------------
(* State.                                                                  *)

VARIABLES
    p,        \* the *Problem reference: "nil" or "ptr"
    data,     \* p.data: the address of the instance's map, or NilMap
    cause,    \* p.cause
    heap,     \* the maps: 1 the instance's, 2 the one Data() returned
    faulted,  \* a call panicked
    out,      \* the address Data() last returned, 0 before any call
    sink,     \* the calls made on the http.ResponseWriter of the last write
    ret,      \* what WriteTo / write last returned
    uerr,     \* what UnmarshalJSON last returned
    fresh,    \* the instance a round trip decoded into
    last,     \* the last call and its arguments
    log,      \* the options applied to the instance since New
    nops      \* calls made and options applied

vars == <<p, data, cause, heap, faulted, out, sink, ret, uerr, fresh, last, log, nops>>

Cur == [p |-> p, data |-> data, heap |-> heap, cause |-> cause, fault |-> faulted]

Install(st) ==
    /\ p' = st.p
    /\ data' = st.data
    /\ heap' = st.heap
    /\ cause' = st.cause
    /\ faulted' = st.fault

Call(op, opts, fallback, b) == [op |-> op, opts |-> opts, fallback |-> fallback, b |-> b]

Cost(opts) == IF Len(opts) = 0 THEN 1 ELSE Len(opts)
Budget(c) == ~faulted /\ nops + c <= MaxOps
Spend(c) == nops' = nops + c

Init ==
    /\ p \in {"nil", "ptr"}
    /\ data \in (IF p = "nil" THEN {NilMap} ELSE {NilMap, 1})
    /\ cause = NoErr
    /\ heap = [a \in 1..2 |-> EmptyMap]
    /\ faulted = FALSE
    /\ out = 0
    /\ sink = <<>>
    /\ ret = NoResult
    /\ uerr = NoErr
    /\ fresh = Mem("nil", NilMap, [a \in 1..2 |-> EmptyMap], NoErr)
    /\ last = Call("init", <<>>, 0, NoBytes)
    /\ log = <<>>
    /\ nops = 0

-----------------------------------------------------------------------------
(* Calls.                                                                  *)

CallNew(opts) ==
    /\ Budget(Cost(opts))
    /\ Install(New(heap, opts))
    /\ last' = Call("New", opts, 0, NoBytes)
    /\ Spend(Cost(opts))
    /\ UNCHANGED <<out, sink, ret, uerr, fresh>>

CallOf(status) ==
    /\ Budget(2)
    /\ Install(Of(heap, status))
    /\ last' = Call("Of", <<Status(status), Title(StatusText(status))>>, 0, NoBytes)
    /\ Spend(2)
    /\ UNCHANGED <<out, sink, ret, uerr, fresh>>

CallAppend(opts) ==
    /\ Budget(Cost(opts))
    /\ Install(ProblemAppend(Cur, opts))
    /\ last' = Call("Append", opts, 0, NoBytes)
    /\ Spend(Cost(opts))
    /\ UNCHANGED <<out, sink, ret, uerr, fresh>>

CallWith(key, value) ==
    /\ Budget(1)
    /\ Install(With(Cur, key, value))
    /\ last' = Call("With", <<Ext(key, value)>>, 0, NoBytes)
    /\ Spend(1)
    /\ UNCHANGED <<out, sink, ret, uerr, fresh>>

CallData ==
    /\ Budget(1)
    /\ out' = Data(Cur).out
    /\ heap' = Data(Cur).heap
    /\ last' = Call("Data", <<>>, 0, NoBytes)
    /\ Spend(1)
    /\ UNCHANGED <<p, data, cause, faulted, sink, ret, uerr, fresh>>

\* The caller stores into the map Data() returned.
OutSet(key, value) ==
    /\ Budget(1)
    /\ out # 0
    /\ heap' = [heap EXCEPT ![out] = MapSet(@, key, value)]
    /\ last' = Call("OutSet", <<>>, 0, NoBytes)
    /\ Spend(1)
    /\ UNCHANGED <<p, data, cause, faulted, out, sink, ret, uerr, fresh>>

\* The caller deletes from the map Data() returned.
OutDelete(key) ==
    /\ Budget(1)
    /\ out # 0
    /\ heap' = [heap EXCEPT ![out] = MapDelete(@, key)]
    /\ last' = Call("OutDelete", <<>>, 0, NoBytes)
    /\ Spend(1)
    /\ UNCHANGED <<p, data, cause, faulted, out, sink, ret, uerr, fresh>>

CallUnmarshalJSON(b) ==
    /\ Budget(1)
    /\ Install(UnmarshalJSON(Cur, b).st)
    /\ uerr' = UnmarshalJSON(Cur, b).err
    /\ last' = Call("UnmarshalJSON", <<>>, 0, b)
    /\ Spend(1)
    /\ UNCHANGED <<out, sink, ret, fresh>>

CallWriteHeaderTo ==
    /\ Budget(1)
    /\ sink' = WriteHeaderTo(Cur)
    /\ ret' = NoResult
    /\ last' = Call("WriteHeaderTo", <<>>, 0, NoBytes)
    /\ Spend(1)
    /\ UNCHANGED <<p, data, cause, heap, faulted, out, uerr, fresh>>

CallWriteTo(res) ==
    /\ Budget(1)
    /\ sink' = WriteTo(Cur, res).calls
    /\ ret' = WriteTo(Cur, res).ret
    /\ last' = Call("WriteTo", <<>>, StatusInternalServerError, NoBytes)
    /\ Spend(1)
    /\ UNCHANGED <<p, data, cause, heap, faulted, out, uerr, fresh>>

CallWrite(fallback, res) ==
    /\ Budget(1)
    /\ sink' = write(Cur, fallback, res).calls
    /\ ret' = write(Cur, fallback, res).ret
    /\ last' = Call("write", <<>>, fallback, NoBytes)
    /\ Spend(1)
    /\ UNCHANGED <<p, data, cause, heap, faulted, out, uerr, fresh>>

\* q := New(); err := q.UnmarshalJSON(p.JSON())
RoundTrip ==
    /\ Budget(1)
    /\ fresh' = UnmarshalJSON(New([a \in 1..2 |-> EmptyMap], <<>>), JSON(Cur)).st
    /\ last' = Call("RoundTrip", <<>>, 0, NoBytes)
    /\ Spend(1)
    /\ UNCHANGED <<p, data, cause, heap, faulted, out, sink, ret, uerr>>

ArgSeqs == OptSeqs(IF MaxArgs < MaxOps - nops THEN MaxArgs ELSE MaxOps - nops)

NewStep == \E opts \in ArgSeqs : CallNew(opts) /\ UNCHANGED log
OfStep == \E c \in Codes : CallOf(c) /\ UNCHANGED log
AppendStep == \E opts \in ArgSeqs : CallAppend(opts) /\ UNCHANGED log
WithStep == \E a \in ExtArgs : CallWith(a[1], a[2]) /\ UNCHANGED log
DataStep == CallData /\ UNCHANGED log
OutSetStep == \E k \in OutKeys, v \in OutVals : OutSet(k, v) /\ UNCHANGED log
OutDeleteStep == \E k \in OutKeys : OutDelete(k) /\ UNCHANGED log
UnmarshalStep == \E b \in Docs : CallUnmarshalJSON(b) /\ UNCHANGED log
WriteHeaderToStep == CallWriteHeaderTo /\ UNCHANGED log
WriteToStep == \E r \in SinkResults : CallWriteTo(r) /\ UNCHANGED log
WriteStep == \E f \in Fallbacks, r \in SinkResults : CallWrite(f, r) /\ UNCHANGED log
RoundTripStep == RoundTrip /\ UNCHANGED log

Next ==
    \/ NewStep \/ OfStep \/ AppendStep \/ WithStep
    \/ DataStep \/ OutSetStep \/ OutDeleteStep
    \/ UnmarshalStep
    \/ WriteHeaderToStep \/ WriteToStep \/ WriteStep
    \/ RoundTripStep

Spec == Init /\ [][Next]_vars

\* The option protocol alone, with the applied options kept in log.
NewLogged == \E opts \in ArgSeqs : CallNew(opts) /\ log' = opts
OfLogged == \E c \in Codes : CallOf(c) /\ log' = <<Status(c), Title(StatusText(c))>>
AppendLogged == \E opts \in ArgSeqs : CallAppend(opts) /\ log' = log \o opts
WithLogged == \E a \in ExtArgs : CallWith(a[1], a[2]) /\ log' = log \o <<Ext(a[1], a[2])>>

NextOpts == NewLogged \/ OfLogged \/ AppendLogged \/ WithLogged

SpecOpts == Init /\ [][NextOpts]_vars

-----------------------------------------------------------------------------
(* Properties.                                                             *)

Keys == {"type", "title", "status", "detail", "instance", "cause", "x"}
Absent == <<NilVal, FALSE>>
FieldsOf(st) == IF st.p = "nil" \/ st.data = NilMap THEN EmptyMap ELSE st.heap[st.data]
OptionCalls == {"New", "Of", "Append", "With"}
\* The last call applied exactly the one option o, on an instance that was
\* there before (Append, With) or on the fresh one (New).
Applied(o) == last'.op \in OptionCalls /\ last'.opts = <<o>>
Before(key) == IF last'.op = "New" THEN Absent ELSE Get(Cur, key)

\* C1: with only field-setting options (and skipped nil options) applied
\* through New and later Append/With calls, every key holds the value of the
\* last option of the sequence that targets it, and a key no option targets
\* is absent.
Targets(k) == {i \in 1..Len(log) : log[i].kind = "set" /\ log[i].key = k}
LastOf(S) == CHOOSE i \in S : \A j \in S : j <= i
OnlyFieldSetting == \A i \in 1..Len(log) : log[i].kind \in {"set", "nil"}
C1_LastWriteWins ==
    (p = "ptr" /\ OnlyFieldSetting) =>
        \A k \in Keys :
            Get(Cur, k) = IF Targets(k) = {} THEN Absent
                          ELSE <<log[LastOf(Targets(k))].val, TRUE>>

C1_Witness ==
    /\ p = "ptr" /\ OnlyFieldSetting
    /\ \E k \in Keys : \E i, j \in Targets(k) : i < j /\ log[i].val # log[j].val
    /\ \E i \in 1..Len(log) : log[i] = NilOption

\* C2: the map Data() returns equals the field mapping (empty for a nil
\* instance or a nil map) and is another map than the instance's: a store to
\* or a delete from the returned map leaves Get, Data and JSON of the
\* instance as they were.
DataView(st) == Data(st).heap[Data(st).out]
C2_DataIsCopy ==
    /\ [](last.op = "Data" => heap[out] = FieldsOf(Cur))
    /\ []((p = "nil" \/ data = NilMap) => DataView(Cur) = EmptyMap)
    /\ [][last'.op \in {"OutSet", "OutDelete"} =>
            /\ \A k \in Keys : Get(Cur, k)' = Get(Cur, k)
            /\ DataView(Cur)' = DataView(Cur)
            /\ JSON(Cur)' = JSON(Cur)]_vars

C2_Witness ==
    /\ last.op \in {"OutSet", "OutDelete"}
    /\ p = "ptr" /\ data # NilMap
    /\ heap[data] # EmptyMap
    /\ heap[out] # heap[data]

\* C3: JSON() of an instance whose values are all JSON-compatible, decoded
\* by UnmarshalJSON into a fresh instance, gives a field mapping equal to
\* the original, values and value types included.
C3_RoundTrip ==
    (last.op = "RoundTrip" /\ p = "ptr"
        /\ \A k \in DOMAIN FieldsOf(Cur) : Encodable(FieldsOf(Cur)[k]))
    => FieldsOf(fresh) = FieldsOf(Cur)

\* C4: WriteTo / write(fallback) sets the Content-Type header, then writes
\* one status line (the status field when it is there and an int, else the
\* fallback, else 500 for a zero fallback), then the body JSON(), and
\* returns what the sink's Write returned.
ExpectedCode ==
    IF p = "ptr" /\ "status" \in DOMAIN FieldsOf(Cur) /\ FieldsOf(Cur)["status"].t = "int"
    THEN FieldsOf(Cur)["status"].n
    ELSE IF last.fallback # 0 THEN last.fallback
    ELSE 500
C4_WriteTo ==
    last.op \in {"WriteTo", "write"} =>
        /\ Len(sink) = 3
        /\ sink[1].call = "Header.Set" /\ sink[1].arg = "application/problem+json"
        /\ sink[2].call = "WriteHeader" /\ sink[2].code = ExpectedCode
        /\ sink[3].call = "Write" /\ sink[3].body = JSON(Cur)
        /\ ret = sink[3].res
        /\ (last.op = "WriteTo" => last.fallback = 500)

C4_Witness ==
    /\ last.op = "write" /\ last.fallback = 0
    /\ p = "ptr" /\ "status" \in DOMAIN FieldsOf(Cur)
    /\ FieldsOf(Cur)["status"].t # "int"
    /\ sink[2].code = 500
    /\ ret.err # NoErr

\* C5 as stated: after Wrap(err), Unwrap() returns err and Get("cause")
\* reports absent, whatever was applied before; after WrapPublic(err),
\* Unwrap() returns err and Get("cause") returns the text err.Error().
\* (Read for the calls that returned; err.Error() of an absent err is no text.)
C5_Original ==
    (last.op \in OptionCalls /\ Len(last.opts) > 0 /\ ~faulted) =>
        LET o == last.opts[Len(last.opts)]
        IN  /\ o.kind = "Wrap" =>
                Unwrap(Cur) = o.err /\ Get(Cur, "cause") = Absent
            /\ o.kind = "WrapPublic" =>
                Unwrap(Cur) = o.err /\ Get(Cur, "cause") = <<StrVal(ErrorText(o.err)), TRUE>>

\* C5 as amended: after Wrap(err), Unwrap() returns err and Get("cause")
\* reports what it reported before Wrap was applied (absent on a new
\* instance); after WrapPublic(err) with a present err, Unwrap() returns err
\* and Get("cause") returns the text err.Error(); WrapPublic of an absent
\* err stores the absent cause, leaves the key as it was and panics.
C5_Amended ==
    [][\A e \in Causes :
        /\ Applied(Wrap(e)) =>
              Unwrap(Cur)' = e /\ Get(Cur, "cause")' = Before("cause") /\ ~faulted'
        /\ (Applied(WrapPublic(e)) /\ e # NoErr) =>
              /\ Unwrap(Cur)' = e /\ ~faulted'
              /\ Get(Cur, "cause")' = <<StrVal(ErrorText(e)), TRUE>>
        /\ (Applied(WrapPublic(e)) /\ e = NoErr) =>
              /\ Unwrap(Cur)' = e /\ faulted'
              /\ Get(Cur, "cause")' = Before("cause")]_vars

C5_Witness ==
    /\ last.op = "Append" /\ Len(last.opts) = 1 /\ last.opts[1].kind = "Wrap"
    /\ last.opts[1].err # NoErr
    /\ Unwrap(Cur) = last.opts[1].err
    /\ Get(Cur, "cause")[2]
    /\ Get(Cur, "cause")[1] # StrVal(ErrorText(last.opts[1].err))

\* C6: after UnmarshalJSON(b) on a non-nil instance the field mapping holds
\* exactly the members of b when b is a JSON object, and when b is malformed
\* or not a JSON object an error is returned and the mapping is empty; on a
\* nil instance an error is returned.
C6_Unmarshal ==
    last.op = "UnmarshalJSON" =>
        IF p = "nil" THEN uerr # NoErr
        ELSE IF last.b.kind = "object"
        THEN /\ uerr = NoErr
             /\ FieldsOf(Cur) = [k \in DOMAIN last.b.members |-> Decode(last.b.members[k])]
        ELSE uerr # NoErr /\ FieldsOf(Cur) = EmptyMap

\* C7: on a nil instance, or one whose map is nil, Get reports absent for
\* every key, Data() is empty, Unwrap() returns no cause, Is(target) holds
\* only for the absent target, and JSON()/JSONString()/Error() are null for
\* the nil instance and {} for the nil map.
C7_NilReads ==
    (p = "nil" \/ data = NilMap) =>
        /\ \A k \in Keys : Get(Cur, k) = Absent
        /\ DataView(Cur) = EmptyMap
        /\ Unwrap(Cur) = NoErr
        /\ \A target \in Causes : Is(Cur, target) <=> target = NoErr
        /\ LET want == IF p = "nil" THEN NullBytes ELSE ObjectBytes(EmptyMap)
           IN  JSON(Cur) = want /\ JSONString(Cur) = want /\ Error(Cur) = want

\* C8: no call of New or Append (With, Of), whatever its options, panics.
C8_NoFault == ~faulted

\* C9: when the body JSON() has a status member that is an integer, the
\* status line written by WriteTo / write and by WriteHeaderTo carries that
\* integer.
C9_StatusEchoed ==
    (last.op \in {"WriteTo", "write", "WriteHeaderTo"}
        /\ JSON(Cur).kind = "object"
        /\ "status" \in DOMAIN JSON(Cur).members
        /\ JSON(Cur).members["status"].j = "number")
    => \E i \in 1..Len(sink) :
          sink[i].call = "WriteHeader" /\ sink[i].code = JSON(Cur).members["status"].n

\* C10: a field-setting option changes the one key it targets and nothing
\* else, the cause included; Wrap changes the cause and leaves the field
\* mapping and the serialized output as they were; WrapPublic changes the
\* cause and the cause key only.
C10_Frame ==
    [][\A o \in Options :
        (Applied(o) /\ last'.op # "New" /\ p = "ptr") =>
            /\ o.kind = "nil" => FieldsOf(Cur)' = FieldsOf(Cur) /\ cause' = cause
            /\ o.kind = "set" =>
                  /\ Get(Cur, o.key)' = <<o.val, TRUE>>
                  /\ \A k \in Keys \ {o.key} : Get(Cur, k)' = Get(Cur, k)
                  /\ DOMAIN FieldsOf(Cur)' = DOMAIN FieldsOf(Cur) \cup {o.key}
                  /\ cause' = cause
            /\ o.kind = "Wrap" =>
                  /\ FieldsOf(Cur)' = FieldsOf(Cur)
                  /\ JSON(Cur)' = JSON(Cur)
                  /\ cause' = o.err
            /\ o.kind = "WrapPublic" =>
                  /\ \A k \in Keys \ {"cause"} : Get(Cur, k)' = Get(Cur, k)
                  /\ DOMAIN FieldsOf(Cur)' \subseteq DOMAIN FieldsOf(Cur) \cup {"cause"}
                  /\ cause' = o.err]_vars

C10_Witness ==
    /\ last.op = "Append" /\ last.opts = <<Type("a")>>
    /\ cause # NoErr
    /\ {"title", "type"} \subseteq DOMAIN FieldsOf(Cur)

====
